---- MODULE Spec2Model ----
(***************************************************************************)
(* Model of api/recommend.js: the /api/recommend serverless handler, its   *)
(* credential resolver (getApiKey), fetch resolver (getFetch) and body     *)
(* reader (readJsonBody).                                                  *)
(*                                                                         *)
(* JavaScript values are tagged records; a string is the sequence of its   *)
(* characters; an object is the sequence of its <<key, value>> entries in  *)
(* insertion order.                                                        *)
(***************************************************************************)
EXTENDS Integers, Sequences, FiniteSets, TLC

VARIABLES
    pc,         \* position of the handler's async function
    method,     \* req.method
    reqBody,    \* req.body as the transport left it
    pending,    \* raw request text the stream has not delivered yet
    chunks,     \* number of 'data' events delivered
    d,          \* readJsonBody's accumulator
    stream,     \* how the request stream finished: "end" or "error"
    body,       \* handler local: body
    answers,    \* handler local: answers
    env,        \* process.env and the credential files, as getApiKey saw them
    key,        \* handler local: OPENAI_KEY
    fetchFn,    \* handler local: fetchFn
    resp,       \* handler local: resp, the upstream response
    assistant,  \* handler local: assistant
    err,        \* the error the outer catch received
    res,        \* the response object: headers, status, body, number of sends
    acquired,   \* number of getFetch calls made
    requests,   \* upstream requests issued, in order
    kin,        \* credential resolver on its own: the environment given
    kout        \* credential resolver on its own: what getApiKey returned

vars == <<pc, method, reqBody, pending, chunks, d, stream, body, answers, env,
          key, fetchFn, resp, assistant, err, res, acquired, requests, kin, kout>>

(***************************************************************************)
(* JavaScript values                                                       *)
(***************************************************************************)
Undef == [t |-> "undefined"]
Null == [t |-> "null"]
Bool(b) == [t |-> "boolean", b |-> b]
Num(n) == [t |-> "number", n |-> n]
Str(s) == [t |-> "string", s |-> s]
Arr(a) == [t |-> "array", a |-> a]
Obj(o) == [t |-> "object", o |-> o]
EmptyObj == Obj(<<>>)

\* ToBoolean, as used by &&, ||, ! and if
Truthy(v) ==
    CASE v.t = "undefined" -> FALSE
      [] v.t = "null" -> FALSE
      [] v.t = "boolean" -> v.b
      [] v.t = "number" -> v.n # 0
      [] v.t = "string" -> v.s # <<>>
      [] OTHER -> TRUE

\* a || b
OrElse(a, b) == IF Truthy(a) THEN a ELSE b

\* v is undefined or null: reading a property of it throws a TypeError
Nullish(v) == v.t \in {"undefined", "null"}

\* v[k] for a v that is not nullish; only own entries of objects are modelled
GetProp(v, k) ==
    IF v.t = "object" /\ \E i \in 1..Len(v.o) : v.o[i][1] = k
    THEN LET i == CHOOSE i \in 1..Len(v.o) : v.o[i][1] = k IN v.o[i][2]
    ELSE Undef

\* v[0] for a v that is not nullish
GetFirst(v) ==
    CASE v.t = "array" -> IF Len(v.a) > 0 THEN v.a[1] ELSE Undef
      [] v.t = "string" -> IF Len(v.s) > 0 THEN Str(<<v.s[1]>>) ELSE Undef
      [] OTHER -> Undef

\* a?.k
OptProp(v, k) == IF Nullish(v) THEN Undef ELSE GetProp(v, k)

\* Object.keys(v).length for a v that is not nullish
ObjectKeysLen(v) ==
    CASE v.t = "object" -> Len(v.o)
      [] v.t = "array" -> Len(v.a)
      [] v.t = "string" -> Len(v.s)
      [] OTHER -> 0

\* Array.prototype.includes(x) for a string x
ArrayIncludes(a, x) == \E i \in 1..Len(a) : a[i] = Str(x)

\* String.prototype.includes(sub)
StringIncludes(s, sub) ==
    \E i \in 0..(Len(s) - Len(sub)) : SubSeq(s, i + 1, i + Len(sub)) = sub

\* String.prototype.indexOf(c) for a single character, 0-based, -1 if absent
IndexOf(s, c) ==
    IF \E i \in 1..Len(s) : s[i] = c
    THEN (CHOOSE i \in 1..Len(s) : s[i] = c /\ \A j \in 1..(i - 1) : s[j] # c) - 1
    ELSE -1

\* String.prototype.slice(start) for 0 <= start
Slice(s, start) == SubSeq(s, start + 1, Len(s))

WhiteSpace == {" ", "\n", "\t", "\r"}

RECURSIVE TrimStart(_)
TrimStart(s) ==
    IF s # <<>> /\ Head(s) \in WhiteSpace THEN TrimStart(Tail(s)) ELSE s

RECURSIVE TrimEnd(_)
TrimEnd(s) ==
    IF s # <<>> /\ s[Len(s)] \in WhiteSpace
    THEN TrimEnd(SubSeq(s, 1, Len(s) - 1)) ELSE s

\* String.prototype.trim
Trim(s) == TrimEnd(TrimStart(s))

(***************************************************************************)
(* JSON.parse on texts without signs, fractions, exponents or \u escapes   *)
(***************************************************************************)
Digits == {"0", "1", "2", "3", "4", "5", "6", "7", "8", "9"}

DigitVal(c) ==
    CASE c = "0" -> 0 [] c = "1" -> 1 [] c = "2" -> 2 [] c = "3" -> 3
      [] c = "4" -> 4 [] c = "5" -> 5 [] c = "6" -> 6 [] c = "7" -> 7
      [] c = "8" -> 8 [] c = "9" -> 9

ParseFail == [ok |-> FALSE, v |-> Undef, i |-> 0]
ParseOk(v, i) == [ok |-> TRUE, v |-> v, i |-> i]

At(s, i) == IF i >= 1 /\ i <= Len(s) THEN s[i] ELSE "EOF"

RECURSIVE SkipWs(_, _)
SkipWs(s, i) == IF At(s, i) \in WhiteSpace THEN SkipWs(s, i + 1) ELSE i

\* the characters of a string literal whose opening quote precedes position i;
\* of the escapes only \" \\ and \/ are read
RECURSIVE ParseString(_, _, _)
ParseString(s, i, acc) ==
    CASE At(s, i) \in {"EOF", "\n", "\t", "\r"} -> ParseFail
      [] At(s, i) = "\\" ->
           IF At(s, i + 1) \in {"\"", "\\", "/"}
           THEN ParseString(s, i + 2, Append(acc, s[i + 1]))
           ELSE ParseFail
      [] At(s, i) = "\"" -> ParseOk(Str(acc), i + 1)
      [] OTHER -> ParseString(s, i + 1, Append(acc, s[i]))

RECURSIVE ParseDigits(_, _, _)
ParseDigits(s, i, n) ==
    IF At(s, i) \in Digits
    THEN ParseDigits(s, i + 1, 10 * n + DigitVal(s[i]))
    ELSE ParseOk(Num(n), i)

\* a leading zero is a number on its own
ParseNumber(s, i) ==
    IF s[i] = "0" THEN ParseOk(Num(0), i + 1) ELSE ParseDigits(s, i, 0)

ParseWord(s, i, w, v) ==
    IF i + Len(w) - 1 <= Len(s) /\ SubSeq(s, i, i + Len(w) - 1) = w
    THEN ParseOk(v, i + Len(w)) ELSE ParseFail

\* o[k] = v on an object under construction: a repeated key keeps its place
PutEntry(o, k, v) ==
    IF \E i \in 1..Len(o) : o[i][1] = k
    THEN [i \in 1..Len(o) |-> IF o[i][1] = k THEN <<k, v>> ELSE o[i]]
    ELSE Append(o, <<k, v>>)

RECURSIVE ParseValue(_, _), ParseMembers(_, _, _), ParseElements(_, _, _)

ParseValue(s, i0) ==
    LET i == SkipWs(s, i0)
        c == At(s, i)
    IN  CASE c = "{" ->
               IF At(s, SkipWs(s, i + 1)) = "}"
               THEN ParseOk(EmptyObj, SkipWs(s, i + 1) + 1)
               ELSE ParseMembers(s, i + 1, <<>>)
          [] c = "[" ->
               IF At(s, SkipWs(s, i + 1)) = "]"
               THEN ParseOk(Arr(<<>>), SkipWs(s, i + 1) + 1)
               ELSE ParseElements(s, i + 1, <<>>)
          [] c = "\"" -> ParseString(s, i + 1, <<>>)
          [] c \in Digits -> ParseNumber(s, i)
          [] c = "n" -> ParseWord(s, i, <<"n", "u", "l", "l">>, Null)
          [] c = "t" -> ParseWord(s, i, <<"t", "r", "u", "e">>, Bool(TRUE))
          [] c = "f" -> ParseWord(s, i, <<"f", "a", "l", "s", "e">>, Bool(FALSE))
          [] OTHER -> ParseFail

\* "key" : value, then either a comma and more members or the closing brace
ParseMembers(s, i0, acc) ==
    LET i == SkipWs(s, i0)
    IN  IF At(s, i) # "\"" THEN ParseFail
        ELSE LET k == ParseString(s, i + 1, <<>>)
             IN  IF ~k.ok \/ At(s, SkipWs(s, k.i)) # ":" THEN ParseFail
                 ELSE LET v == ParseValue(s, SkipWs(s, k.i) + 1)
                      IN  IF ~v.ok THEN ParseFail
                          ELSE LET j == SkipWs(s, v.i)
                                   o == PutEntry(acc, k.v.s, v.v)
                               IN  CASE At(s, j) = "," -> ParseMembers(s, j + 1, o)
                                     [] At(s, j) = "}" -> ParseOk(Obj(o), j + 1)
                                     [] OTHER -> ParseFail

\* value, then either a comma and more elements or the closing bracket
ParseElements(s, i0, acc) ==
    LET v == ParseValue(s, i0)
    IN  IF ~v.ok THEN ParseFail
        ELSE LET j == SkipWs(s, v.i)
                 a == Append(acc, v.v)
             IN  CASE At(s, j) = "," -> ParseElements(s, j + 1, a)
                   [] At(s, j) = "]" -> ParseOk(Arr(a), j + 1)
                   [] OTHER -> ParseFail

\* JSON.parse(text): ok is FALSE where JSON.parse throws a SyntaxError
JSONParse(s) ==
    LET r == ParseValue(s, 1)
    IN  IF r.ok /\ SkipWs(s, r.i) > Len(s) THEN [ok |-> TRUE, v |-> r.v]
        ELSE [ok |-> FALSE, v |-> Undef]


(***************************************************************************)
(* Credential resolver                                                     *)
(***************************************************************************)
LocalKeyPath ==
    <<".", "/", "O", "P", "E", "N", "_", "A", "I", "_", "K", "E", "Y">>
RunSecretsPath ==
    <<"/", "r", "u", "n", "/", "s", "e", "c", "r", "e", "t", "s", "/", "O",
      "P", "E", "N", "_", "A", "I", "_", "K", "E", "Y">>
CustomKeyPath == <<"/", "e", "t", "c", "/", "k">>

\* what fs.readFileSync finds at a path it cannot read: it throws
FileError == [t |-> "error"]

\* tryReadFileSync(path) over the file system `files`
tryReadFileSync(files, path) ==
    IF path \in DOMAIN files /\ files[path].t = "string"
    THEN LET s == Trim(files[path].s)
         IN  IF s # <<>> THEN Str(s) ELSE Null
    ELSE Null

\* the test that takes any non-empty value, blank ones included
EnvSetUntrimmed(v) == Truthy(v)

\* process.env.X && process.env.X.trim()
EnvSet(v) == Truthy(v) /\ Trim(v.s) # <<>>

\* getApiKey() in the environment e: process.env and the file system
getApiKey(e) ==
    IF EnvSet(e.OPENAI_API_KEY) THEN Str(Trim(e.OPENAI_API_KEY.s))
    ELSE IF EnvSet(e.OPEN_AI_KEY) THEN Str(Trim(e.OPEN_AI_KEY.s))
    ELSE LET fromFile == IF Truthy(e.OPEN_AI_KEY_FILE)
                         THEN tryReadFileSync(e.files, e.OPEN_AI_KEY_FILE.s)
                         ELSE Null
             fromLocal == tryReadFileSync(e.files, LocalKeyPath)
             fromRunSecrets == tryReadFileSync(e.files, RunSecretsPath)
         IN  IF Truthy(fromFile) THEN fromFile
             ELSE IF Truthy(fromLocal) THEN fromLocal
             ELSE IF Truthy(fromRunSecrets) THEN fromRunSecrets
             ELSE Null

\* environments: each variable unset, empty, blank or set with padding; each
\* file unreadable, blank or holding a padded token
Blank == <<" ", "\n">>
Token1 == <<" ", "s", "k", "-", "1", "\n">>
Token2 == <<"s", "k", "-", "2", " ">>
Token3 == <<"\n", "s", "k", "-", "3">>
Token4 == <<"s", "k", "-", "4", "\n">>
Token5 == <<" ", "s", "k", "-", "5", " ">>

FileSystems(c3, c4, c5) ==
    {[p \in {CustomKeyPath, LocalKeyPath, RunSecretsPath} |->
         IF p = CustomKeyPath THEN f[1] ELSE IF p = LocalKeyPath THEN f[2] ELSE f[3]] :
       f \in c3 \X c4 \X c5}

KeyEnvs ==
    [OPENAI_API_KEY : {Undef, Str(<<>>), Str(Blank), Str(Token1)},
     OPEN_AI_KEY : {Undef, Str(Blank), Str(Token2)},
     OPEN_AI_KEY_FILE : {Undef, Str(<<>>), Str(CustomKeyPath)},
     files : FileSystems({FileError, Str(Blank), Str(Token3)},
                         {FileError, Str(Blank), Str(Token4)},
                         {FileError, Str(Blank), Str(Token5)})]

(***************************************************************************)
(* Errors                                                                  *)
(***************************************************************************)
\* an Error object; a message is kept as a sequence of text pieces
Exception(name, msg) == [t |-> "exception", name |-> name, msg |-> msg]

\* String(err)
ErrString(e) == <<e.name, ": ">> \o e.msg

\* the result of an expression that throws e
Thrown(e) == [t |-> "throw", e |-> e]

TypeError(msg) == Exception("TypeError", msg)

(***************************************************************************)
(* JSON.stringify of a value that JSON.parse can produce                   *)
(***************************************************************************)
RECURSIVE NatText(_)
NatText(n) ==
    LET digit == CHOOSE c \in Digits : DigitVal(c) = n % 10
    IN  IF n < 10 THEN <<digit>> ELSE Append(NatText(n \div 10), digit)

RECURSIVE Quoted(_)
Quoted(s) ==
    IF s = <<>> THEN <<>>
    ELSE (IF Head(s) \in {"\"", "\\"} THEN <<"\\", Head(s)>> ELSE <<Head(s)>>)
         \o Quoted(Tail(s))

RECURSIVE JSONStringify(_), StringifyEntries(_, _), StringifyElements(_, _)

JSONStringify(v) ==
    CASE v.t = "null" -> <<"n", "u", "l", "l">>
      [] v.t = "boolean" ->
           IF v.b THEN <<"t", "r", "u", "e">> ELSE <<"f", "a", "l", "s", "e">>
      [] v.t = "number" -> NatText(v.n)
      [] v.t = "string" -> <<"\"">> \o Quoted(v.s) \o <<"\"">>
      [] v.t = "array" -> <<"[">> \o StringifyElements(v.a, 1) \o <<"]">>
      [] v.t = "object" -> <<"{">> \o StringifyEntries(v.o, 1) \o <<"}">>

StringifyEntries(o, i) ==
    IF i > Len(o) THEN <<>>
    ELSE <<"\"">> \o Quoted(o[i][1]) \o <<"\"", ":">> \o JSONStringify(o[i][2])
         \o (IF i < Len(o) THEN <<",">> ELSE <<>>) \o StringifyEntries(o, i + 1)

StringifyElements(a, i) ==
    IF i > Len(a) THEN <<>>
    ELSE JSONStringify(a[i])
         \o (IF i < Len(a) THEN <<",">> ELSE <<>>) \o StringifyElements(a, i + 1)

(***************************************************************************)
(* Names and literals of the handler                                       *)
(***************************************************************************)
K_answers == <<"a", "n", "s", "w", "e", "r", "s">>
K_destinations ==
    <<"d", "e", "s", "t", "i", "n", "a", "t", "i", "o", "n", "s">>
K_relocationType ==
    <<"r", "e", "l", "o", "c", "a", "t", "i", "o", "n", "T", "y", "p", "e">>
K_choices == <<"c", "h", "o", "i", "c", "e", "s">>
K_message == <<"m", "e", "s", "s", "a", "g", "e">>
K_content == <<"c", "o", "n", "t", "e", "n", "t">>
K_error == <<"e", "r", "r", "o", "r">>
K_status == <<"s", "t", "a", "t", "u", "s">>
K_body == <<"b", "o", "d", "y">>
K_text == <<"t", "e", "x", "t">>
K_country == <<"c", "o", "u", "n", "t", "r", "y">>
K_score == <<"s", "c", "o", "r", "e">>
K_reasons == <<"r", "e", "a", "s", "o", "n", "s">>
K_cities == <<"c", "i", "t", "i", "e", "s">>
K_name == <<"n", "a", "m", "e">>
K_reason == <<"r", "e", "a", "s", "o", "n">>
PANAMA == <<"p", "a", "n", "a", "m", "a">>
BELIZE == <<"b", "e", "l", "i", "z", "e">>
WORK == <<"w", "o", "r", "k">>
EmptyObjectText == <<"{", "}">>

CostaRica == Str(<<"Costa Rica">>)
Panama == Str(<<"Panama">>)
Belize == Str(<<"Belize">>)

Unread == [t |-> "unread"]

(***************************************************************************)
(* The handler's steps                                                     *)
(***************************************************************************)
\* the method test that ignores letter case
IsPostAnyCase(m) == m \in {"POST", "post", "Post"}

\* req.method === 'POST'
IsPost(m) == m = "POST"

MethodNotAllowed == Obj(<< <<K_error, Str(<<"Method not allowed. Use POST.">>)>> >>)

\* req.body && Object.keys(req.body).length
UsesParsedBody(rb) == Truthy(rb) /\ ObjectKeysLen(rb) > 0

\* the 'end' listener without its catch: a text that does not parse is passed on
OnEndNoCatch(text) ==
    LET p == JSONParse(IF text # <<>> THEN text ELSE EmptyObjectText)
    IN  p.v

\* the 'end' listener: what the promise resolves to when the stream held text
OnEnd(text) ==
    LET p == JSONParse(IF text # <<>> THEN text ELSE EmptyObjectText)
    IN  IF p.ok THEN p.v ELSE EmptyObj

\* the 'error' listener
OnError == EmptyObj

\* body.answers || {}
AnswersOf(b) ==
    IF Nullish(b)
    THEN Thrown(TypeError(<<"Cannot read properties of ", b.t, " (reading 'answers')">>))
    ELSE OrElse(GetProp(b, K_answers), EmptyObj)

\* dests
Dests(a) ==
    LET x == GetProp(a, K_destinations)
    IN  IF x.t = "array" THEN x.a ELSE IF Truthy(x) THEN <<x>> ELSE <<>>

\* relocation
Relocation(a) == OrElse(GetProp(a, K_relocationType), Str(<<>>))

\* relocation.includes('work'): of a string, of an array, or not a function
Includes(v, x) ==
    CASE v.t = "string" -> Bool(StringIncludes(v.s, x))
      [] v.t = "array" -> Bool(ArrayIncludes(v.a, x))
      [] OTHER -> Thrown(TypeError(<<"relocation.includes is not a function">>))

\* pick
Pick(a) ==
    IF ArrayIncludes(Dests(a), PANAMA) THEN Panama
    ELSE IF ArrayIncludes(Dests(a), BELIZE) THEN Belize
    ELSE IF Truthy(Relocation(a))
         THEN LET w == Includes(Relocation(a), WORK)
              IN  IF w.t = "throw" THEN w
                  ELSE IF w.b THEN Panama ELSE CostaRica
    ELSE CostaRica

City(name, reason) == Obj(<< <<K_name, Str(<<name>>)>>, <<K_reason, Str(<<reason>>)>> >>)

\* fallback
Fallback(pick) ==
    Obj(<< <<K_country, pick>>,
           <<K_score, Num(75)>>,
           <<K_reasons,
             Arr(<< Str(<<"Based on your selections, ">> \o pick.s
                        \o <<" aligns best with your priorities.">>),
                    Str(<<"Good balance of lifestyle, services, and accessibility for your needs.">>) >>)>>,
           <<K_cities,
             Arr(<< City(IF pick = CostaRica THEN "San José"
                         ELSE IF pick = Panama THEN "Panama City" ELSE "Belize City",
                         "Main hub with services"),
                    City(IF pick = CostaRica THEN "Guanacaste"
                         ELSE IF pick = Panama THEN "Boquete" ELSE "San Pedro",
                         "Popular expat/retirement spot"),
                    City(IF pick = CostaRica THEN "La Fortuna"
                         ELSE IF pick = Panama THEN "David" ELSE "Caye Caulker",
                         "Leisure and nature options") >>)>> >>)

\* the test that takes only undefined for a missing key
NoKeyUndefinedOnly(k) == k.t = "undefined"

\* !OPENAI_KEY
NoKey(k) == ~Truthy(k)

Function(name) == [t |-> "function", name |-> name]

\* getFetch(): the fetch found, or the error it throws
GetFetch(hasGlobal, importOk) ==
    IF hasGlobal THEN Function("globalThis.fetch")
    ELSE IF importOk THEN Function("node-fetch")
    ELSE Thrown(Exception("Error",
             <<"No fetch available and node-fetch failed to import: ">>
             \o ErrString(Exception("Error", <<"Cannot find package 'node-fetch'">>))))

\* ${k} in a template literal, for a string or a nullish k
TemplateText(k) == IF k.t = "string" THEN k.s ELSE <<k.t>>

SystemPrompt ==
    <<"You are a concise relocation advisor expert for Costa Rica, Panama, and Belize.\n",
      "Given a user's structured answers, pick the single best country (Costa Rica, Panama, or Belize),\n",
      "explain why in 2-4 short bullet reasons, and list 3 cities with a brief reason for each. Put a disclaimer that this is only a suggestion and that speaking with a representative is important.\n",
      "Return a strict JSON object ONLY (no extra commentary).">>

UserPrompt(a) ==
    <<"User answers (JSON): ">> \o JSONStringify(a)
    \o <<".\n", "Return JSON with keys:\n",
         "- country: string (one of \"Costa Rica\",\"Panama\",\"Belize\")\n",
         "- score: integer 0-100 (confidence)\n",
         "- reasons: array of short strings (2-4)\n",
         "- cities: array of { name: string, reason: string } (3 entries)\n",
         "Keep outputs short and concise.">>

\* the request the handler passes to fetchFn
UpstreamRequest(k, a) ==
    [url |-> "https://api.openai.com/v1/chat/completions",
     method |-> "POST",
     authorization |-> <<"Bearer ">> \o TemplateText(k),
     contentType |-> "application/json",
     model |-> "gpt-3.5-turbo",
     temperature |-> "0.35",
     messages |-> <<[role |-> "system", content |-> SystemPrompt],
                    [role |-> "user", content |-> UserPrompt(a)]>>,
     max_tokens |-> 400]

\* resp.ok, as fetch sets it
RespOk(r) == r.status >= 200 /\ r.status <= 299

\* the extraction that also guards j itself
AssistantOfGuarded(j) ==
    LET c == OptProp(j, K_choices)
        f == IF Nullish(c) THEN Undef ELSE GetFirst(c)
    IN  OrElse(OptProp(OptProp(f, K_message), K_content), Str(<<>>))

\* j.choices?.[0]?.message?.content || ''
AssistantOf(j) ==
    IF Nullish(j)
    THEN Thrown(TypeError(<<"Cannot read properties of ", j.t, " (reading 'choices')">>))
    ELSE LET c == GetProp(j, K_choices)
             f == IF Nullish(c) THEN Undef ELSE GetFirst(c)
         IN  OrElse(OptProp(OptProp(f, K_message), K_content), Str(<<>>))

TextOnly(a) == Obj(<< <<K_text, a>> >>)

\* the recovery that parses the whole content
RecoverWhole(a) ==
    IF a.t = "string" /\ JSONParse(a.s).ok THEN JSONParse(a.s).v ELSE TextOnly(a)

\* the inner try/catch: the body of the 200 response for assistant content a
\* (a string, or a number, boolean or object, which have no indexOf)
Recover(a) ==
    IF a.t = "string"
    THEN LET start == IndexOf(a.s, "{")
             jsonText == IF start >= 0 THEN Slice(a.s, start) ELSE a.s
             parsed == JSONParse(jsonText)
         IN  IF parsed.ok THEN parsed.v ELSE TextOnly(a)
    ELSE TextOnly(a)

\* the 502 body with the upstream text trimmed
UpstreamErrorTrimmed(status, txt) ==
    Obj(<< <<K_error, Str(<<"OpenAI API error">>)>>,
           <<K_status, Num(status)>>,
           <<K_body, Str(Trim(txt))>> >>)

\* the body of the 502 response
UpstreamError(status, txt) ==
    Obj(<< <<K_error, Str(<<"OpenAI API error">>)>>,
           <<K_status, Num(status)>>,
           <<K_body, Str(txt)>> >>)

\* the body of the catch-all response
ServerError(e) ==
    Obj(<< <<K_error, Str(<<"Server error">>)>>,
           <<K_message, Str(ErrString(e))>> >>)

\* res.status(code).json(value)
Send(r, code, value) ==
    [r EXCEPT !.sent = @ + 1, !.status = code, !.body = value]

(***************************************************************************)
(* Requests, environments and upstream responses explored                  *)
(***************************************************************************)
MaxChunks == 2

Methods == {"POST", "GET", "post"}

COSTA_RICA == <<"c", "o", "s", "t", "a", " ", "r", "i", "c", "a">>
REMOTE_WORK == <<"r", "e", "m", "o", "t", "e", " ", "w", "o", "r", "k">>
RETIRE == <<"r", "e", "t", "i", "r", "e">>

DestinationValues ==
    {Undef, Str(PANAMA), Str(BELIZE), Arr(<<Str(BELIZE), Str(PANAMA)>>),
     Arr(<<Str(COSTA_RICA)>>), Arr(<<>>), Num(5)}

RelocationValues ==
    {Undef, Str(<<>>), Str(WORK), Str(REMOTE_WORK), Str(RETIRE), Num(5)}

\* an object with the entries whose value is not undefined
ObjectOf(entries) == Obj(SelectSeq(entries, LAMBDA e : e[2] # Undef))

AnswersValues ==
    {ObjectOf(<< <<K_destinations, dst>>, <<K_relocationType, rel>> >>) :
        dst \in DestinationValues, rel \in RelocationValues}
    \cup {Null, Num(5), Str(PANAMA)}

\* req.body as a body parser may leave it
ParsedBodies ==
    {Undef, EmptyObj, Str(PANAMA)} \cup {ObjectOf(<< <<K_answers, a>> >>) : a \in AnswersValues}

Raw_Empty == <<>>
Raw_Blank == <<" ">>
Raw_Object == <<"{", "}">>
Raw_Null == <<"n", "u", "l", "l">>
Raw_Number == <<"5">>
Raw_Prose == <<"h", "e", "l", "l", "o">>
Raw_Cut == <<"{", "\"", "a", "n", "s", "w", "e", "r", "s", "\"", ":">>
Raw_Panama ==
    <<"{", "\"", "a", "n", "s", "w", "e", "r", "s", "\"", ":", "{", "\"",
      "d", "e", "s", "t", "i", "n", "a", "t", "i", "o", "n", "s", "\"",
      ":", "\"", "p", "a", "n", "a", "m", "a", "\"", "}", "}">>
Raw_Belize ==
    <<"{", "\"", "a", "n", "s", "w", "e", "r", "s", "\"", ":", " ", "{",
      "\"", "d", "e", "s", "t", "i", "n", "a", "t", "i", "o", "n", "s",
      "\"", ":", "[", "\"", "b", "e", "l", "i", "z", "e", "\"", "]", "}",
      " ", "}">>
Raw_Five ==
    <<"{", "\"", "a", "n", "s", "w", "e", "r", "s", "\"", ":", "{", "\"",
      "r", "e", "l", "o", "c", "a", "t", "i", "o", "n", "T", "y", "p",
      "e", "\"", ":", "5", "}", "}">>

\* the text of the request stream
RawBodies ==
    {Raw_Empty, Raw_Blank, Raw_Object, Raw_Null, Raw_Number, Raw_Prose, Raw_Cut,
     Raw_Panama, Raw_Belize, Raw_Five}

Environment(a, b, c, f3, f4, f5) ==
    [OPENAI_API_KEY |-> a, OPEN_AI_KEY |-> b, OPEN_AI_KEY_FILE |-> c,
     files |-> CHOOSE f \in FileSystems({f3}, {f4}, {f5}) : TRUE]

\* the environments a request is handled in
HandlerEnvs ==
    {Environment(Undef, Undef, Undef, FileError, FileError, FileError),
     Environment(Str(Blank), Str(Blank), Str(CustomKeyPath), Str(Blank), FileError, Str(Blank)),
     Environment(Str(Token1), Undef, Undef, FileError, FileError, FileError),
     Environment(Undef, Undef, Undef, FileError, FileError, Str(Token5))}

Up_Json ==
    <<"{", "\"", "c", "h", "o", "i", "c", "e", "s", "\"", ":", "[", "{",
      "\"", "m", "e", "s", "s", "a", "g", "e", "\"", ":", "{", "\"", "c",
      "o", "n", "t", "e", "n", "t", "\"", ":", "\"", "{", "\\", "\"",
      "c", "o", "u", "n", "t", "r", "y", "\\", "\"", ":", "\\", "\"",
      "B", "e", "l", "i", "z", "e", "\\", "\"", "}", "\"", "}", "}", "]",
      "}">>
Up_Prefixed ==
    <<"{", "\"", "c", "h", "o", "i", "c", "e", "s", "\"", ":", "[", "{",
      "\"", "m", "e", "s", "s", "a", "g", "e", "\"", ":", "{", "\"", "c",
      "o", "n", "t", "e", "n", "t", "\"", ":", "\"", "h", "e", "r", "e",
      ":", " ", "{", "\\", "\"", "c", "o", "u", "n", "t", "r", "y", "\\",
      "\"", ":", "\\", "\"", "B", "e", "l", "i", "z", "e", "\\", "\"",
      "}", "\"", "}", "}", "]", "}">>
Up_Trailing ==
    <<"{", "\"", "c", "h", "o", "i", "c", "e", "s", "\"", ":", "[", "{",
      "\"", "m", "e", "s", "s", "a", "g", "e", "\"", ":", "{", "\"", "c",
      "o", "n", "t", "e", "n", "t", "\"", ":", "\"", "{", "\\", "\"",
      "s", "c", "o", "r", "e", "\\", "\"", ":", "5", "}", " ", "o", "k",
      "\"", "}", "}", "]", "}">>
Up_TwoBraces ==
    <<"{", "\"", "c", "h", "o", "i", "c", "e", "s", "\"", ":", "[", "{",
      "\"", "m", "e", "s", "s", "a", "g", "e", "\"", ":", "{", "\"", "c",
      "o", "n", "t", "e", "n", "t", "\"", ":", "\"", "{", "x", "}", " ",
      "{", "\\", "\"", "s", "c", "o", "r", "e", "\\", "\"", ":", "5",
      "}", "\"", "}", "}", "]", "}">>
Up_Prose ==
    <<"{", "\"", "c", "h", "o", "i", "c", "e", "s", "\"", ":", "[", "{",
      "\"", "m", "e", "s", "s", "a", "g", "e", "\"", ":", "{", "\"", "c",
      "o", "n", "t", "e", "n", "t", "\"", ":", "\"", "M", "o", "v", "e",
      " ", "t", "o", " ", "P", "a", "n", "a", "m", "a", "\"", "}", "}",
      "]", "}">>
Up_Digit ==
    <<"{", "\"", "c", "h", "o", "i", "c", "e", "s", "\"", ":", "[", "{",
      "\"", "m", "e", "s", "s", "a", "g", "e", "\"", ":", "{", "\"", "c",
      "o", "n", "t", "e", "n", "t", "\"", ":", "\"", "5", "\"", "}", "}",
      "]", "}">>
Up_EmptyContent ==
    <<"{", "\"", "c", "h", "o", "i", "c", "e", "s", "\"", ":", "[", "{",
      "\"", "m", "e", "s", "s", "a", "g", "e", "\"", ":", "{", "\"", "c",
      "o", "n", "t", "e", "n", "t", "\"", ":", "\"", "\"", "}", "}", "]",
      "}">>
Up_NumberContent ==
    <<"{", "\"", "c", "h", "o", "i", "c", "e", "s", "\"", ":", "[", "{",
      "\"", "m", "e", "s", "s", "a", "g", "e", "\"", ":", "{", "\"", "c",
      "o", "n", "t", "e", "n", "t", "\"", ":", "7", "}", "}", "]", "}">>
Up_NoContent ==
    <<"{", "\"", "c", "h", "o", "i", "c", "e", "s", "\"", ":", "[", "{",
      "\"", "m", "e", "s", "s", "a", "g", "e", "\"", ":", "{", "}", "}",
      "]", "}">>
Up_NoChoices ==
    <<"{", "\"", "e", "r", "r", "o", "r", "\"", ":", "n", "u", "l", "l", "}">>
Up_EmptyChoices ==
    <<"{", "\"", "c", "h", "o", "i", "c", "e", "s", "\"", ":", "[", "]", "}">>
Up_Null == <<"n", "u", "l", "l">>
Up_Number == <<"5">>
Up_Html == <<"<", "h", "t", "m", "l", ">">>
Up_RateLimit ==
    <<"{", "\"", "e", "r", "r", "o", "r", "\"", ":", "\"", "r", "a", "t",
      "e", " ", "l", "i", "m", "i", "t", "\"", "}">>
Up_Busy == <<"b", "u", "s", "y", "\n">>

UpstreamTexts ==
    {Up_Json, Up_Prefixed, Up_Trailing, Up_TwoBraces, Up_Prose, Up_Digit,
     Up_EmptyContent, Up_NumberContent, Up_NoContent, Up_NoChoices,
     Up_EmptyChoices, Up_Null, Up_Number, Up_Html}

\* an upstream response: its status, its body text, and whether the body can
\* be read to its end
UpstreamResponses ==
    [status : {200}, raw : UpstreamTexts, readable : BOOLEAN]
    \cup [status : {429, 500}, raw : {Up_RateLimit, Up_Busy}, readable : BOOLEAN]

NetworkFailure == Exception("TypeError", <<"fetch failed">>)
BodyFailure == Exception("TypeError", <<"terminated">>)
NotJson == Exception("SyntaxError", <<"Unexpected token in JSON">>)

(***************************************************************************)
(* One invocation of the handler.  The request's body and the world the    *)
(* handler meets are chosen at the step that first reads them.             *)
(***************************************************************************)
NoResponse == [sent |-> 0, status |-> 0, headers |-> {}, body |-> Undef]

Idle ==
    /\ reqBody = Unread /\ pending = <<>> /\ chunks = 0 /\ d = <<>>
    /\ stream = "open" /\ body = Unread /\ answers = Unread /\ env = Unread
    /\ key = Unread /\ fetchFn = Unread /\ resp = Unread /\ assistant = Unread
    /\ err = Unread /\ res = NoResponse /\ acquired = 0 /\ requests = <<>>

Init ==
    /\ pc = "start"
    /\ method \in Methods
    /\ Idle
    /\ kin = Unread /\ kout = Unread

\* the outer catch
Catch(e) ==
    /\ err' = e
    /\ res' = Send(res, 500, ServerError(e))
    /\ pc' = "done"

\* lines 55-58
MethodCheck ==
    /\ pc = "start"
    /\ IF ~IsPost(method)
       THEN /\ res' = Send([res EXCEPT !.headers = @ \cup {<<"Allow", "POST">>}],
                           405, MethodNotAllowed)
            /\ pc' = "done"
       ELSE /\ pc' = "readJsonBody"
            /\ res' = res
    /\ UNCHANGED <<method, reqBody, pending, chunks, d, stream, body, answers, env,
                   key, fetchFn, resp, assistant, err, acquired, requests, kin, kout>>

\* readJsonBody up to its return or to the registration of the listeners
ReadJsonBody ==
    /\ pc = "readJsonBody"
    /\ \E rb \in ParsedBodies :
         /\ reqBody' = rb
         /\ IF UsesParsedBody(rb)
            THEN /\ body' = rb
                 /\ pc' = "gotBody"
                 /\ pending' = pending
            ELSE /\ body' = body
                 /\ pc' = "stream"
                 /\ pending' \in RawBodies
    /\ UNCHANGED <<method, chunks, d, stream, answers, env, key, fetchFn, resp,
                   assistant, err, res, acquired, requests, kin, kout>>

\* req.on('data', c => d += c); the last chunk allowed carries all that is left
StreamData ==
    /\ pc = "stream"
    /\ pending # <<>>
    /\ chunks < MaxChunks
    /\ \E n \in (IF chunks + 1 = MaxChunks THEN {Len(pending)} ELSE 1..Len(pending)) :
         /\ d' = d \o SubSeq(pending, 1, n)
         /\ pending' = SubSeq(pending, n + 1, Len(pending))
    /\ chunks' = chunks + 1
    /\ UNCHANGED <<pc, method, reqBody, stream, body, answers, env, key, fetchFn,
                   resp, assistant, err, res, acquired, requests, kin, kout>>

\* req.on('end', ...)
StreamEnd ==
    /\ pc = "stream"
    /\ pending = <<>>
    /\ stream' = "end"
    /\ body' = OnEnd(d)
    /\ pc' = "gotBody"
    /\ UNCHANGED <<method, reqBody, pending, chunks, d, answers, env, key, fetchFn,
                   resp, assistant, err, res, acquired, requests, kin, kout>>

\* req.on('error', ...)
StreamError ==
    /\ pc = "stream"
    /\ stream' = "error"
    /\ body' = OnError
    /\ pc' = "gotBody"
    /\ UNCHANGED <<method, reqBody, pending, chunks, d, answers, env, key, fetchFn,
                   resp, assistant, err, res, acquired, requests, kin, kout>>

\* lines 61-64: answers, then getApiKey in the environment of that moment
ResolveKey ==
    /\ pc = "gotBody"
    /\ IF AnswersOf(body).t = "throw"
       THEN /\ pc' = "rejected"
            /\ UNCHANGED <<answers, env, key>>
       ELSE /\ answers' = AnswersOf(body)
            /\ \E e \in HandlerEnvs :
                 /\ env' = e
                 /\ key' = getApiKey(e)
            /\ pc' = "gotKey"
    /\ UNCHANGED <<method, reqBody, pending, chunks, d, stream, body, fetchFn, resp,
                   assistant, err, res, acquired, requests, kin, kout>>

\* lines 67-89
FallbackPath ==
    /\ pc = "gotKey"
    /\ NoKey(key)
    /\ IF Pick(answers).t = "throw"
       THEN /\ pc' = "rejected"
            /\ res' = res
       ELSE /\ res' = Send(res, 200, Fallback(Pick(answers)))
            /\ pc' = "done"
    /\ UNCHANGED <<method, reqBody, pending, chunks, d, stream, body, answers, env,
                   key, fetchFn, resp, assistant, err, acquired, requests, kin, kout>>

\* lines 91-106: the prompt is built and getFetch settles
AcquireFetch ==
    /\ pc = "gotKey"
    /\ ~NoKey(key)
    /\ acquired' = acquired + 1
    /\ \E hasGlobal \in BOOLEAN, importOk \in BOOLEAN :
         LET f == GetFetch(hasGlobal, importOk)
         IN  IF f.t = "function"
             THEN /\ fetchFn' = f
                  /\ pc' = "fetch"
                  /\ UNCHANGED <<err, res>>
             ELSE /\ fetchFn' = fetchFn
                  /\ Catch(f.e)
    /\ UNCHANGED <<method, reqBody, pending, chunks, d, stream, body, answers, env,
                   key, resp, assistant, requests, kin, kout>>

\* lines 107-122: the request is issued and settles
CallFetch ==
    /\ pc = "fetch"
    /\ requests' = Append(requests, UpstreamRequest(key, answers))
    /\ \/ /\ resp' \in UpstreamResponses
          /\ pc' = "gotResp"
          /\ UNCHANGED <<err, res>>
       \/ /\ resp' = resp
          /\ Catch(NetworkFailure)
    /\ UNCHANGED <<method, reqBody, pending, chunks, d, stream, body, answers, env,
                   key, fetchFn, assistant, acquired, kin, kout>>

\* lines 124-128
UpstreamFailure ==
    /\ pc = "gotResp"
    /\ ~RespOk(resp)
    /\ IF resp.readable
       THEN /\ res' = Send(res, 502, UpstreamError(resp.status, resp.raw))
            /\ pc' = "done"
            /\ err' = err
       ELSE Catch(BodyFailure)
    /\ UNCHANGED <<method, reqBody, pending, chunks, d, stream, body, answers, env,
                   key, fetchFn, resp, assistant, acquired, requests, kin, kout>>

\* lines 130-142
UpstreamSuccess ==
    /\ pc = "gotResp"
    /\ RespOk(resp)
    /\ IF ~resp.readable
       THEN Catch(BodyFailure) /\ assistant' = assistant
       ELSE IF ~JSONParse(resp.raw).ok
       THEN Catch(NotJson) /\ assistant' = assistant
       ELSE LET a == AssistantOf(JSONParse(resp.raw).v)
            IN  IF a.t = "throw"
                THEN Catch(a.e) /\ assistant' = assistant
                ELSE /\ assistant' = a
                     /\ res' = Send(res, 200, Recover(a))
                     /\ pc' = "done"
                     /\ err' = err
    /\ UNCHANGED <<method, reqBody, pending, chunks, d, stream, body, answers, env,
                   key, fetchFn, resp, acquired, requests, kin, kout>>

Next ==
    \/ MethodCheck
    \/ ReadJsonBody
    \/ StreamData
    \/ StreamEnd
    \/ StreamError
    \/ ResolveKey
    \/ FallbackPath
    \/ AcquireFetch
    \/ CallFetch
    \/ UpstreamFailure
    \/ UpstreamSuccess

Spec == Init /\ [][Next]_vars

(***************************************************************************)
(* The credential resolver on its own, over every environment of KeyEnvs   *)
(***************************************************************************)
KeyInit ==
    /\ pc = "idle"
    /\ method = "POST"
    /\ Idle
    /\ kin \in KeyEnvs
    /\ kout = Unread

CallGetApiKey ==
    /\ kout = Unread
    /\ kin # Unread
    /\ kout' = getApiKey(kin)
    /\ UNCHANGED <<pc, method, reqBody, pending, chunks, d, stream, body, answers,
                   env, key, fetchFn, resp, assistant, err, res, acquired, requests,
                   kin>>

KeyNext == CallGetApiKey

KeySpec == KeyInit /\ [][KeyNext]_vars

(***************************************************************************)
(* Properties                                                              *)
(***************************************************************************)
Finished == pc \in {"done", "rejected"}

NoCredential == key = Null

HasCredential == key # Unread /\ key # Null

CitiesOf(b) == GetProp(b, K_cities)

\* C1: every POST request handled without a credential, whatever body.answers
\* is, ends with one 200 response whose score is 75 and whose cities has
\* exactly 3 entries.
C1_FallbackAlwaysAnswers ==
    (Finished /\ method = "POST" /\ NoCredential) =>
        /\ res.sent = 1
        /\ res.status = 200
        /\ GetProp(res.body, K_score) = Num(75)
        /\ CitiesOf(res.body).t = "array"
        /\ Len(CitiesOf(res.body).a) = 3

\* the country the ordered rule names for answers a
RuleDestinations(a) ==
    LET x == GetProp(a, K_destinations)
    IN  IF x.t = "string" THEN {x}
        ELSE IF x.t = "array" THEN {x.a[i] : i \in 1..Len(x.a)}
        ELSE {}

RuleCountry(a) ==
    LET rel == GetProp(a, K_relocationType)
    IN  IF Str(PANAMA) \in RuleDestinations(a) THEN Panama
        ELSE IF Str(BELIZE) \in RuleDestinations(a) THEN Belize
        ELSE IF rel.t = "string" /\ StringIncludes(rel.s, WORK) THEN Panama
        ELSE CostaRica

\* C2: without a credential the country of the response is the one the ordered
\* rule names (panama, else belize, else relocationType containing "work", else
\* Costa Rica), for every answers value.
C2_PickFollowsRule ==
    (Finished /\ NoCredential) => GetProp(res.body, K_country) = RuleCountry(answers)

\* C3: a request whose method is not exactly POST gets header Allow: POST,
\* status 405 and the fixed error body, and neither its body nor a credential
\* is read.
C3_NonPost405 ==
    (method # "POST" /\ pc # "start") =>
        /\ pc = "done"
        /\ res = [sent |-> 1, status |-> 405, headers |-> {<<"Allow", "POST">>},
                  body |-> Obj(<< <<K_error, Str(<<"Method not allowed. Use POST.">>)>> >>)]
        /\ reqBody = Unread /\ d = <<>> /\ stream = "open" /\ body = Unread
        /\ env = Unread /\ key = Unread

C3_Witness == pc = "done" /\ method = "post" /\ res.status = 405

\* C4: when the body comes from the stream and the stream is empty, is not
\* JSON text or signals an error, readJsonBody yields {} and the handler goes
\* on with answers = {}: it never fails the request, and without a credential
\* it recommends Costa Rica.
C4_BadBodyIsEmptyAnswers ==
    (stream # "open" /\ (stream = "error" \/ d = <<>> \/ ~JSONParse(d).ok)) =>
        /\ body = EmptyObj
        /\ pc # "rejected"
        /\ (pc # "gotBody" => answers = EmptyObj)
        /\ (pc = "done" /\ NoCredential =>
              /\ res.sent = 1
              /\ res.status = 200
              /\ GetProp(res.body, K_country) = CostaRica)

C4_Witness ==
    /\ pc = "done" /\ stream = "end" /\ d = Raw_Cut /\ NoCredential
    /\ GetProp(res.body, K_country) = CostaRica

NonSuccess == resp # Unread /\ (resp.status < 200 \/ resp.status > 299)

UpstreamErrorBody ==
    Obj(<< <<K_error, Str(<<"OpenAI API error">>)>>,
           <<K_status, Num(resp.status)>>,
           <<K_body, Str(resp.raw)>> >>)

\* C5 as stated: whenever the upstream status is not a success the response is
\* 502 with the upstream status and text, and the response is never parsed as
\* a recommendation.
C5_NonSuccessAlways502 ==
    (pc = "done" /\ NonSuccess) =>
        /\ res.sent = 1
        /\ res.status = 502
        /\ res.body = UpstreamErrorBody
        /\ assistant = Unread

\* C5 amended: when the upstream status is not a success and the text of the
\* upstream body is read, the response is 502 with the upstream status and the
\* text unchanged; when reading the text fails, the response is the 500 of the
\* catch-all; in neither case is the response parsed as a recommendation.
C5_NonSuccess502WhenTextRead ==
    (pc = "done" /\ NonSuccess) =>
        /\ res.sent = 1
        /\ assistant = Unread
        /\ IF resp.readable
           THEN res.status = 502 /\ res.body = UpstreamErrorBody
           ELSE res.status = 500 /\ GetProp(res.body, K_error) = Str(<<"Server error">>)

C5_Witness ==
    /\ pc = "done" /\ NonSuccess /\ resp.status = 429 /\ resp.raw = Up_Busy
    /\ resp.readable /\ res.status = 502

\* the content at choices[0].message.content of j, undefined when absent
ContentAt(j) ==
    LET c == GetProp(j, K_choices)
        f == IF c.t = "array" /\ Len(c.a) > 0 THEN c.a[1] ELSE Undef
    IN  GetProp(GetProp(f, K_message), K_content)

\* the text from the first "{" of c to its end, all of c when it has none
FromFirstBrace(c) ==
    IF \E i \in 1..Len(c) : c[i] = "{"
    THEN LET i == CHOOSE i \in 1..Len(c) :
                      c[i] = "{" /\ \A j \in 1..(i - 1) : c[j] # "{"
         IN  SubSeq(c, i, Len(c))
    ELSE c

\* C6: with textual assistant content c (the empty string when the content is
\* absent) the response is 200; its body is the JSON value of c from its first
\* "{" (of all of c when it has none) when that text parses, and {text: c}
\* with the whole of c when it does not.
C6_ContentRecovery ==
    (pc = "done" /\ assistant # Unread /\ assistant.t = "string") =>
        LET c == assistant.s
            p == JSONParse(FromFirstBrace(c))
            content == ContentAt(JSONParse(resp.raw).v)
        IN  /\ res.sent = 1
            /\ res.status = 200
            /\ res.body = IF p.ok THEN p.v ELSE Obj(<< <<K_text, Str(c)>> >>)
            /\ (content = Undef => c = <<>>)
            /\ (content.t = "string" => c = content.s)

BelizeText == <<"B", "e", "l", "i", "z", "e">>

C6_Witness ==
    /\ pc = "done" /\ resp # Unread /\ resp.raw = Up_Prefixed
    /\ res.status = 200
    /\ res.body = Obj(<< <<K_country, Str(BelizeText)>> >>)

\* what the n-th credential source yields, trimmed; empty when it yields nothing
FileYield(files, path) ==
    IF path \in DOMAIN files /\ files[path] # FileError THEN Trim(files[path].s)
    ELSE <<>>

SourceYield(e, n) ==
    CASE n = 1 -> IF e.OPENAI_API_KEY = Undef THEN <<>> ELSE Trim(e.OPENAI_API_KEY.s)
      [] n = 2 -> IF e.OPEN_AI_KEY = Undef THEN <<>> ELSE Trim(e.OPEN_AI_KEY.s)
      [] n = 3 -> IF e.OPEN_AI_KEY_FILE = Undef THEN <<>>
                  ELSE FileYield(e.files, e.OPEN_AI_KEY_FILE.s)
      [] n = 4 -> FileYield(e.files, LocalKeyPath)
      [] n = 5 -> FileYield(e.files, RunSecretsPath)

\* C7: getApiKey returns the trimmed value of the first of its five sources
\* that is non-empty after trimming, skipping unset, blank and unreadable
\* ones; it returns null only when all five yield nothing, and never an empty
\* string.
C7_FirstNonEmptySource ==
    kout # Unread =>
        LET yielding == {n \in 1..5 : SourceYield(kin, n) # <<>>}
        IN  /\ kout # Str(<<>>)
            /\ (yielding = {} => kout = Null)
            /\ (yielding # {} =>
                  \E n \in yielding :
                     /\ \A m \in yielding : n <= m
                     /\ kout = Str(SourceYield(kin, n)))

SecretToken == <<"s", "k", "-", "5">>

C7_Witness ==
    /\ kout = Str(SecretToken)
    /\ kin.OPENAI_API_KEY = Str(Blank)
    /\ kin.OPEN_AI_KEY_FILE = Str(CustomKeyPath)
    /\ kin.files[CustomKeyPath] = FileError
    /\ kin.files[LocalKeyPath] = Str(Blank)

\* C8: every invocation that comes to its end has sent exactly one response,
\* with status 200, 405, 502 or 500, whatever the body parses to and whatever
\* the fields of answers are; none ends by throwing.
C8_ExactlyOneResponse ==
    /\ res.sent <= 1
    /\ pc # "rejected"
    /\ (Finished => res.sent = 1 /\ res.status \in {200, 405, 502, 500})

\* what went wrong on the upstream path, judged from what the handler met
FetchUnavailable == pc = "done" /\ acquired = 1 /\ fetchFn = Unread
RequestFailed == pc = "done" /\ requests # <<>> /\ resp = Unread
BodyUnreadable == pc = "done" /\ resp # Unread /\ ~resp.readable
BodyNotJson ==
    /\ pc = "done" /\ resp # Unread /\ ~NonSuccess /\ resp.readable
    /\ ~JSONParse(resp.raw).ok
BodyJsonNull ==
    /\ pc = "done" /\ resp # Unread /\ ~NonSuccess /\ resp.readable
    /\ JSONParse(resp.raw).ok /\ JSONParse(resp.raw).v = Null

UpstreamPathError ==
    FetchUnavailable \/ RequestFailed \/ BodyUnreadable \/ BodyNotJson \/ BodyJsonNull

\* C9: with a credential, an error in acquiring fetch, in sending the request
\* or in reading and parsing the upstream body gives exactly one response, the
\* 500 {error: "Server error", message: String(err)}; the 500 has no other
\* origin.
C9_UpstreamErrorsGive500 ==
    /\ (HasCredential /\ UpstreamPathError =>
          /\ res.sent = 1
          /\ res.status = 500
          /\ err # Unread
          /\ res.body = Obj(<< <<K_error, Str(<<"Server error">>)>>,
                               <<K_message, Str(<<err.name, ": ">> \o err.msg)>> >>)
          /\ (FetchUnavailable =>
                /\ err.name = "Error"
                /\ err.msg[1] = "No fetch available and node-fetch failed to import: "))
    /\ (res.status = 500 => HasCredential /\ UpstreamPathError)

C9_Witness ==
    /\ pc = "done" /\ resp # Unread /\ resp.raw = Up_Null /\ resp.readable
    /\ res.status = 500 /\ err.name = "TypeError"

\* C10: the upstream request is issued at most once, and only for a POST with
\* a credential; getFetch is called at most once; on the 405 path and on the
\* path without a credential neither happens.
C10_AtMostOneUpstreamRequest ==
    /\ Len(requests) <= 1
    /\ acquired <= 1
    /\ (requests # <<>> \/ acquired > 0 =>
          /\ method = "POST"
          /\ key # Unread /\ key.t = "string" /\ key.s # <<>>)
    /\ (requests # <<>> =>
          /\ acquired = 1
          /\ fetchFn # Unread
          /\ requests[1].authorization = <<"Bearer ">> \o key.s)
    /\ (res.status = 405 \/ NoCredential => requests = <<>> /\ acquired = 0)

C10_Witness ==
    /\ pc = "done" /\ Len(requests) = 1 /\ res.status = 200
    /\ resp # Unread /\ resp.raw = Up_Prose

====
